---- MODULE Spec2Model ----
(***************************************************************************)
(* A model of the spiderpool control-plane helpers:                        *)
(*   - the SpiderSubnet admission webhook (pkg/subnetmanager),             *)
(*   - the pod top-controller resolver (pkg/podmanager),                   *)
(*   - the auto-pool naming and pool-IP-number parsing utilities.          *)
(* Strings the code inspects character by character are modelled as        *)
(* sequences of one-character strings.                                     *)
(***************************************************************************)
EXTENDS Integers, Sequences, FiniteSets, TLC

VARIABLES
    wh,     \* the admission webhook: the last hook call and its answer
    store,  \* the API server's objects, keyed by <<kind, namespace, name>>
    pod,    \* the pod handed to GetPodTopController
    rv,     \* the resolver call: position, locals, fetch count, result
    nm,     \* SubnetPoolName: a pair of calls and their results
    pn,     \* GetPoolIPNumber: the call's input and its result
    churn,  \* how many times other clients changed the store during the call
    jb,     \* CalculateJobPodNum: the call's inputs and its result
    an,     \* GetSubnetAnnoConfig: the pod annotations and the calls' results
    fr      \* GenSubnetFreeIPs: the subnet and the call's result

vars == <<wh, store, pod, rv, nm, pn, churn, jb, an, fr>>

Nil == "nil"

\* The variables of the pure helpers before they are called.
JbIdle == <<>>
AnIdle == <<>>
FrIdle == <<>>

(***************************************************************************)
(* Bounds of the model.                                                    *)
(***************************************************************************)
MaxFinalizers == 2
NumSpecs == 2
MaxErrs == 2
MaxChurn == 2
MaxUIDLen == 3
MaxStrLen == 4
MaxJobNum == 5
MaxSubnetItems == 2
MaxIP == 3

(***************************************************************************)
(* Subnet admission webhook  (src/pkg/subnetmanager/subnet_webhook.go)     *)
(***************************************************************************)
SpiderFinalizer == "spiderpool.spidernet.io"
OtherFinalizer == "example.com/other"

\* The sequences over S of length at most n.
SeqUpTo(S, n) == UNION {[1..k -> S] : k \in 0..n}

\* The SpiderSubnet objects of the model: the metadata the hooks read and
\* an abstract spec value.
Subnets ==
    [Name : {"subnet-a"},
     DeletionTimestamp : {Nil, "t1"},
     Finalizers : SeqUpTo({SpiderFinalizer, OtherFinalizer}, MaxFinalizers),
     Spec : 1..NumSpecs]

\* The field-error lists (field.ErrorList) the structural validation may return.
FieldErrors == {"spec.ips", "spec.excludeIPs"}
ErrorLists == SeqUpTo(FieldErrors, MaxErrs)

\* controllerutil.ContainsFinalizer
ContainsFinalizer(o, finalizer) ==
    \E i \in 1..Len(o.Finalizers) : o.Finalizers[i] = finalizer

Allowed == [Status |-> "nil", Name |-> "", Errs |-> <<>>]
Forbidden == [Status |-> "Forbidden", Name |-> "", Errs |-> <<>>]
Invalid(name, errs) == [Status |-> "Invalid", Name |-> name, Errs |-> errs]

\* Default returning the failure of the mutation step.
Default_ReturnsMutateError(subnet, mutateErr) ==
    IF mutateErr # Nil
    THEN [Status |-> "InternalError", Name |-> "", Errs |-> <<>>]
    ELSE [Status |-> "nil", Name |-> "", Errs |-> <<>>]

\* SubnetWebhook.Default; mutateErr is what sw.mutateSubnet returned.  The
\* error is logged and nil is returned either way.
Default(subnet, mutateErr) == Allowed

\* ValidateCreate reporting the first field error only.
ValidateCreate_FirstErrorOnly(subnet, errs) ==
    IF Len(errs) # 0
    THEN [Status |-> "Invalid", Name |-> subnet.Name, Errs |-> <<errs[1]>>]
    ELSE [Status |-> "nil", Name |-> "", Errs |-> <<>>]

\* SubnetWebhook.ValidateCreate; errs is what sw.validateCreateSubnet returned.
ValidateCreate(subnet, errs) ==
    IF Len(errs) # 0 THEN Invalid(subnet.Name, errs) ELSE Allowed

\* ValidateUpdate without the branch for a terminating Subnet.
ValidateUpdate_NoTerminatingBranch(oldSubnet, newSubnet, errs) ==
    IF Len(errs) # 0
    THEN [Status |-> "Invalid", Name |-> newSubnet.Name, Errs |-> errs]
    ELSE [Status |-> "nil", Name |-> "", Errs |-> <<>>]

\* SubnetWebhook.ValidateUpdate; errs is what sw.validateUpdateSubnet returns
\* for (oldSubnet, newSubnet) when it is reached.
ValidateUpdate(oldSubnet, newSubnet, errs) ==
    IF newSubnet.DeletionTimestamp # Nil
    THEN IF ~ContainsFinalizer(newSubnet, SpiderFinalizer)
         THEN Allowed
         ELSE Forbidden
    ELSE IF Len(errs) # 0
         THEN Invalid(newSubnet.Name, errs)
         ELSE Allowed

\* SubnetWebhook.ValidateDelete
ValidateDelete(subnet) == Allowed

\* The update requests the API server sends: the same object, and a
\* deletion timestamp, once set, stays set.
UpdatePair(o, n) ==
    /\ o.Name = n.Name
    /\ (o.DeletionTimestamp # Nil => n.DeletionTimestamp = o.DeletionTimestamp)

NoSubnet ==
    [Name |-> "", DeletionTimestamp |-> Nil, Finalizers |-> <<>>, Spec |-> 0]

\* What sw.mutateSubnet may return, and the child pools a Subnet's
\* Status.ControlledIPPools may record when its deletion is requested.
MutateErrs == {Nil, "failed to mutate"}
ChildPools == SUBSET {"pool-a", "pool-b"}

WhIdle ==
    [Op |-> "none", Old |-> NoSubnet, New |-> NoSubnet, Errs |-> <<>>,
     MutateErr |-> Nil, Pools |-> {}, Result |-> Allowed]

CallDefault ==
    /\ wh.Op = "none"
    /\ \E s \in Subnets, mutateErr \in MutateErrs :
          wh' = [Op |-> "Default", Old |-> NoSubnet, New |-> s, Errs |-> <<>>,
                 MutateErr |-> mutateErr, Pools |-> {}, Result |-> Default(s, mutateErr)]
    /\ UNCHANGED <<store, pod, rv, nm, pn, churn, jb, an, fr>>

CallValidateCreate ==
    /\ wh.Op = "none"
    /\ \E s \in Subnets, errs \in ErrorLists :
          wh' = [Op |-> "ValidateCreate", Old |-> NoSubnet, New |-> s, Errs |-> errs,
                 MutateErr |-> Nil, Pools |-> {}, Result |-> ValidateCreate(s, errs)]
    /\ UNCHANGED <<store, pod, rv, nm, pn, churn, jb, an, fr>>

CallValidateUpdate ==
    /\ wh.Op = "none"
    /\ \E o \in Subnets, n \in Subnets, errs \in ErrorLists :
          /\ UpdatePair(o, n)
          /\ wh' = [Op |-> "ValidateUpdate", Old |-> o, New |-> n, Errs |-> errs,
                    MutateErr |-> Nil, Pools |-> {}, Result |-> ValidateUpdate(o, n, errs)]
    /\ UNCHANGED <<store, pod, rv, nm, pn, churn, jb, an, fr>>

CallValidateDelete ==
    /\ wh.Op = "none"
    /\ \E s \in Subnets, pools \in ChildPools :
          wh' = [Op |-> "ValidateDelete", Old |-> NoSubnet, New |-> s, Errs |-> <<>>,
                 MutateErr |-> Nil, Pools |-> pools, Result |-> ValidateDelete(s)]
    /\ UNCHANGED <<store, pod, rv, nm, pn, churn, jb, an, fr>>

(***************************************************************************)
(* Pod top-controller resolver  (podmanager, subnet_webhook.go 147-359)    *)
(***************************************************************************)
KindPod == "Pod"
KindReplicaSet == "ReplicaSet"
KindDeployment == "Deployment"
KindJob == "Job"
KindCronJob == "CronJob"
KindDaemonSet == "DaemonSet"
KindStatefulSet == "StatefulSet"
KindUnknown == "Unknown"
KindThirdParty == "Rollout"

AppsV1 == "apps/v1"
BatchV1 == "batch/v1"
ThirdPartyV1 == "example.com/v1"

\* An optional value: None, or Some(x).
None == <<>>
Some(x) == <<x>>
Val(o) == o[1]

Namespaces == {"ns1"}
WorkloadName == "w1"
TopNames == {"w1", "w2"}
UIDs == {"u1", "u2"}

MidKinds == {KindReplicaSet, KindJob, KindDaemonSet, KindStatefulSet}
TopKinds == {KindDeployment, KindCronJob}
StoreKinds == MidKinds \cup TopKinds
Keys ==
    (MidKinds \X Namespaces \X {WorkloadName}) \cup (TopKinds \X Namespaces \X TopNames)

\* metav1.OwnerReference
OwnerRef(apiVersion, kind, name, uid, controller) ==
    [APIVersion |-> apiVersion, Kind |-> kind, Name |-> name, UID |-> uid,
     Controller |-> controller]

\* An API object: the metadata the resolver reads.
Object(kind, ns, name, uid, owners) ==
    [Kind |-> kind, Namespace |-> ns, Name |-> name, UID |-> uid,
     OwnerReferences |-> owners]

\* metav1.GetControllerOf: the first owner reference marked as controller.
GetControllerOf(obj) ==
    LET refs == obj.OwnerReferences
        idx == {i \in 1..Len(refs) : refs[i].Controller}
    IN  IF idx = {} THEN None
        ELSE Some(refs[CHOOSE i \in idx : \A j \in idx : i <= j])

\* types.PodTopController
PodTopController(kind, ns, name, uid, app) ==
    [Kind |-> kind, Namespace |-> ns, Name |-> name, UID |-> uid, APP |-> app]

EmptyTopController == PodTopController("", "", "", "", None)

\* client.Get of the typed object kind at namespace/name. apiFails is the
\* API server failing the request.
ClientGet(st, kind, ns, name, apiFails) ==
    IF apiFails THEN [Err |-> "api error", Obj |-> None]
    ELSE IF <<kind, ns, name>> \notin DOMAIN st \/ st[<<kind, ns, name>>] = None
         THEN [Err |-> "not found", Obj |-> None]
         ELSE [Err |-> Nil, Obj |-> st[<<kind, ns, name>>]]

\* fmt.Errorf("%w: %v", ownerErr, err)
OwnerErr(p, err) == <<"failed to get pod owner", p.Namespace, p.Name, err>>

\* A state of the call: where it is, the locals it holds (podOwner and the
\* object of the first fetch), the client.Get calls it made, what it returned.
RvState(pc, owner, first, gets, res, err) ==
    [PC |-> pc, Owner |-> owner, First |-> first, Gets |-> gets,
     Result |-> res, Err |-> err]

RvIdle == RvState("idle", None, None, <<>>, EmptyTopController, <<>>)

Return(r, res) == [r EXCEPT !.PC = "done", !.Result = res, !.Err = <<>>]
ReturnErr(r, err) ==
    [r EXCEPT !.PC = "done", !.Result = EmptyTopController, !.Err = err]

\* The record of one client.Get: what was asked for and how it ended.
GetRecord(key, got) == [Key |-> key, Err |-> got.Err]

\* ResolveStart without the check of the controller's API group.
ResolveStart_NoGroupCheck(p) ==
    LET podOwner == GetControllerOf(p)
        r == RvState("start", podOwner, None, <<>>, EmptyTopController, <<>>)
    IN  IF podOwner = None
        THEN Return(r, PodTopController(KindPod, p.Namespace, p.Name, p.UID, Some(p)))
        ELSE IF Val(podOwner).Kind \in MidKinds
        THEN [r EXCEPT !.PC = "get1"]
        ELSE Return(r, PodTopController(KindUnknown, p.Namespace,
                                        Val(podOwner).Name, Val(podOwner).UID, None))

\* GetPodTopController up to its first client.Get (lines 212-243, 352-358).
ResolveStart(p) ==
    LET podOwner == GetControllerOf(p)
        r == RvState("start", podOwner, None, <<>>, EmptyTopController, <<>>)
    IN  IF podOwner = None
        THEN Return(r, PodTopController(KindPod, p.Namespace, p.Name, p.UID, Some(p)))
        ELSE IF Val(podOwner).APIVersion # AppsV1 /\ Val(podOwner).APIVersion # BatchV1
        THEN Return(r, PodTopController(KindUnknown, p.Namespace,
                                        Val(podOwner).Name, Val(podOwner).UID, None))
        ELSE IF Val(podOwner).Kind \in MidKinds
        THEN [r EXCEPT !.PC = "get1"]
        ELSE Return(r, PodTopController(KindUnknown, p.Namespace,
                                        Val(podOwner).Name, Val(podOwner).UID, None))

\* The kind, namespace and name of the first client.Get (lines 238-246,
\* 286, 325, 339).
FirstKey(r, p) == <<Val(r.Owner).Kind, p.Namespace, Val(r.Owner).Name>>

\* The switch case after the first client.Get returned got (lines 244-349).
ResolveFirst(r, p, got) ==
    LET podOwner == Val(r.Owner)
        r1 == [r EXCEPT !.Gets = Append(@, GetRecord(FirstKey(r, p), got)),
                        !.First = got.Obj]
    IN  IF got.Err # Nil THEN ReturnErr(r1, OwnerErr(p, got.Err))
        ELSE
        LET obj == Val(got.Obj)
            owner == GetControllerOf(obj)
            topKind == IF podOwner.Kind = KindReplicaSet THEN KindDeployment
                       ELSE KindCronJob
        IN  IF podOwner.Kind \in {KindDaemonSet, KindStatefulSet}
            THEN Return(r1, PodTopController(podOwner.Kind, obj.Namespace,
                                             obj.Name, obj.UID, Some(obj)))
            ELSE IF owner = None
            THEN Return(r1, PodTopController(podOwner.Kind, obj.Namespace,
                                             obj.Name, obj.UID, Some(obj)))
            ELSE IF Val(owner).Kind = topKind
            THEN [r1 EXCEPT !.PC = "get2"]
            ELSE Return(r1, PodTopController(KindUnknown,
                            IF podOwner.Kind = KindReplicaSet
                            THEN p.Namespace ELSE obj.Namespace,
                            Val(owner).Name, Val(owner).UID, None))

\* The kind, namespace and name of the second client.Get (lines 255, 294).
SecondKey(r) ==
    LET obj == Val(r.First)
    IN  <<IF Val(r.Owner).Kind = KindReplicaSet THEN KindDeployment ELSE KindCronJob,
          obj.Namespace, Val(GetControllerOf(obj)).Name>>

\* ResolveSecond returning the immediate owner in place of the fetched one.
ResolveSecond_ReturnsImmediate(r, p, got) ==
    LET r1 == [r EXCEPT !.Gets = Append(@, GetRecord(SecondKey(r), got))]
    IN  IF got.Err # Nil THEN ReturnErr(r1, OwnerErr(p, got.Err))
        ELSE LET obj == Val(r.First)
             IN  Return(r1, PodTopController(Val(r.Owner).Kind, obj.Namespace,
                                             obj.Name, obj.UID, Some(obj)))

\* ResolveSecond treating a failed fetch as an unknown owner.
ResolveSecond_SwallowsError(r, p, got) ==
    LET r1 == [r EXCEPT !.Gets = Append(@, GetRecord(SecondKey(r), got))]
        owner == Val(GetControllerOf(Val(r.First)))
    IN  IF got.Err # Nil
        THEN Return(r1, PodTopController(KindUnknown, p.Namespace, owner.Name,
                                         owner.UID, None))
        ELSE LET obj == Val(got.Obj)
             IN  Return(r1, PodTopController(SecondKey(r)[1], obj.Namespace,
                                             obj.Name, obj.UID, Some(obj)))

\* After the Deployment or CronJob was fetched (lines 256-265, 295-304).
ResolveSecond(r, p, got) ==
    LET r1 == [r EXCEPT !.Gets = Append(@, GetRecord(SecondKey(r), got))]
    IN  IF got.Err # Nil THEN ReturnErr(r1, OwnerErr(p, got.Err))
        ELSE LET obj == Val(got.Obj)
             IN  Return(r1, PodTopController(SecondKey(r)[1], obj.Namespace,
                                             obj.Name, obj.UID, Some(obj)))

(***************************************************************************)
(* The worlds the resolver is run in.                                      *)
(***************************************************************************)
APIVersions == {AppsV1, BatchV1, ThirdPartyV1}
PodName == "p1"
PodUID == "u-pod"

PodOwnerLists ==
    {<<>>} \cup
    {<<OwnerRef(a, k, WorkloadName, u, c)>> :
        a \in APIVersions, k \in MidKinds \cup {KindDeployment, KindThirdParty},
        u \in UIDs, c \in BOOLEAN}

Pods == {Object(KindPod, ns, PodName, PodUID, o) : ns \in Namespaces, o \in PodOwnerLists}

MidOwnerLists ==
    {<<>>} \cup
    {<<OwnerRef(a, k, n, u, TRUE)>> :
        a \in APIVersions, k \in TopKinds \cup {KindThirdParty}, n \in TopNames,
        u \in UIDs}

MidObjects ==
    {Object(k, ns, WorkloadName, u, o) :
        k \in {KindReplicaSet, KindJob}, ns \in Namespaces, u \in UIDs,
        o \in MidOwnerLists}
    \cup
    {Object(k, ns, WorkloadName, u, <<>>) :
        k \in {KindDaemonSet, KindStatefulSet}, ns \in Namespaces, u \in UIDs}

TopObjects ==
    {Object(k, ns, n, u, <<>>) :
        k \in TopKinds, ns \in Namespaces, n \in TopNames, u \in UIDs}

KeyOf(o) == <<o.Kind, o.Namespace, o.Name>>

\* The store holding exactly the objects objs (at most one per key).
StoreWith(objs) ==
    [k \in Keys |->
        IF \E o \in objs : KeyOf(o) = k
        THEN Some(CHOOSE o \in objs : KeyOf(o) = k)
        ELSE None]

\* The stores of the model: at most one ReplicaSet, Job, DaemonSet or
\* StatefulSet and at most one Deployment or CronJob.
Stores ==
    {StoreWith(m \cup t) :
        m \in {{}} \cup {{o} : o \in MidObjects},
        t \in {{}} \cup {{o} : o \in TopObjects}}

NoPod == Object(KindPod, "", "", "", <<>>)
EmptyStore == StoreWith({})
NmIdle == <<>>
PnIdle == <<>>

ResolveInit ==
    /\ pod \in Pods
    /\ store \in Stores
    /\ rv = RvIdle
    /\ wh = WhIdle
    /\ nm = NmIdle
    /\ pn = PnIdle
    /\ churn = 0
    /\ jb = JbIdle
    /\ an = AnIdle
    /\ fr = FrIdle

(***************************************************************************)
(* The resolver's reads interleaved with other clients of the API server.  *)
(***************************************************************************)
\* The API group an owner reference of kind k carries when the object's
\* controller wrote it.
GroupOf(k) == IF k \in {KindJob, KindCronJob} THEN BatchV1 ELSE AppsV1

\* ref names an object the store holds, by kind, name and UID.
RefResolves(st, ns, ref) ==
    /\ ref.APIVersion = GroupOf(ref.Kind)
    /\ st[<<ref.Kind, ns, ref.Name>>] # None
    /\ Val(st[<<ref.Kind, ns, ref.Name>>]).UID = ref.UID

\* Every owner reference of the pod's chain that names a built-in workload
\* names an object of the store: the state the controllers leave behind.
ConsistentChain(st, p) ==
    /\ \A i \in 1..Len(p.OwnerReferences) :
          (p.OwnerReferences[i].Controller /\ p.OwnerReferences[i].Kind \in StoreKinds) =>
                /\ p.OwnerReferences[i].Kind \in MidKinds
                /\ RefResolves(st, p.Namespace, p.OwnerReferences[i])
    /\ \A k \in Keys :
          st[k] # None =>
             \A i \in 1..Len(Val(st[k]).OwnerReferences) :
                Val(st[k]).OwnerReferences[i].Kind \in StoreKinds =>
                    /\ Val(st[k]).OwnerReferences[i].Kind =
                          (IF k[1] = KindReplicaSet THEN KindDeployment ELSE KindCronJob)
                    /\ RefResolves(st, k[2], Val(st[k]).OwnerReferences[i])

ConcInit ==
    /\ pod \in Pods
    /\ store \in Stores
    /\ ConsistentChain(store, pod)
    /\ rv = RvIdle
    /\ wh = WhIdle
    /\ nm = NmIdle
    /\ pn = PnIdle
    /\ churn = 0
    /\ jb = JbIdle
    /\ an = AnIdle
    /\ fr = FrIdle

\* GetPodTopController starts: it reads the pod's controller reference.
Start ==
    /\ rv.PC = "idle"
    /\ rv' = ResolveStart(pod)
    /\ UNCHANGED <<wh, store, pod, nm, pn, churn, jb, an, fr>>

\* The first client.Get and the code up to the next one or the return.
GetFirst ==
    /\ rv.PC = "get1"
    /\ \E fails \in BOOLEAN :
          LET k == FirstKey(rv, pod)
          IN  rv' = ResolveFirst(rv, pod, ClientGet(store, k[1], k[2], k[3], fails))
    /\ UNCHANGED <<wh, store, pod, nm, pn, churn, jb, an, fr>>

\* The second client.Get and the return.
GetSecond ==
    /\ rv.PC = "get2"
    /\ \E fails \in BOOLEAN :
          LET k == SecondKey(rv)
          IN  rv' = ResolveSecond(rv, pod, ClientGet(store, k[1], k[2], k[3], fails))
    /\ UNCHANGED <<wh, store, pod, nm, pn, churn, jb, an, fr>>

\* Another client deletes an object of the store.
DeleteObject ==
    /\ churn < MaxChurn
    /\ rv.PC \in {"get1", "get2"}
    /\ \E k \in Keys :
          /\ store[k] # None
          /\ store' = [store EXCEPT ![k] = None]
    /\ churn' = churn + 1
    /\ UNCHANGED <<wh, pod, rv, nm, pn, jb, an, fr>>

\* Another client deletes an object and creates it again under the same
\* name: the new object has a new UID.
RecreateObject ==
    /\ churn < MaxChurn
    /\ rv.PC \in {"get1", "get2"}
    /\ \E k \in Keys, u \in UIDs :
          /\ store[k] # None
          /\ u # Val(store[k]).UID
          /\ store' = [store EXCEPT ![k] = Some([Val(@) EXCEPT !.UID = u])]
    /\ churn' = churn + 1
    /\ UNCHANGED <<wh, pod, rv, nm, pn, jb, an, fr>>

\* One call of GetPodTopController on any pod and store, the API server
\* serving other clients between the call's requests.
ResolveNext == Start \/ GetFirst \/ GetSecond \/ DeleteObject \/ RecreateObject

SpecResolve == ResolveInit /\ [][ResolveNext]_vars

\* The same call on a pod whose owner chain the store holds.
ConcNext == Start \/ GetFirst \/ GetSecond \/ DeleteObject \/ RecreateObject

SpecConc == ConcInit /\ [][ConcNext]_vars

(***************************************************************************)
(* Strings: sequences of one-character strings.                            *)
(***************************************************************************)
UpperCase == <<"A", "B", "C", "D", "E", "F", "G", "H", "I", "J", "K", "L", "M",
               "N", "O", "P", "Q", "R", "S", "T", "U", "V", "W", "X", "Y", "Z">>
LowerCase == <<"a", "b", "c", "d", "e", "f", "g", "h", "i", "j", "k", "l", "m",
               "n", "o", "p", "q", "r", "s", "t", "u", "v", "w", "x", "y", "z">>
Digits == <<"0", "1", "2", "3", "4", "5", "6", "7", "8", "9">>

\* strings.ToLower
ToLower(s) ==
    [i \in 1..Len(s) |->
        IF \E k \in 1..Len(UpperCase) : UpperCase[k] = s[i]
        THEN LowerCase[CHOOSE k \in 1..Len(UpperCase) : UpperCase[k] = s[i]]
        ELSE s[i]]

\* strings.Count of a one-character separator
Count(s, c) == Cardinality({i \in 1..Len(s) : s[i] = c})

\* strings.Cut at a one-character separator: before, after, found
Cut(s, c) ==
    IF Count(s, c) = 0
    THEN [Before |-> s, After |-> <<>>, Found |-> FALSE]
    ELSE LET i == CHOOSE k \in 1..Len(s) :
                     s[k] = c /\ \A j \in 1..(k - 1) : s[j] # c
         IN  [Before |-> SubSeq(s, 1, i - 1), After |-> SubSeq(s, i + 1, Len(s)),
              Found |-> TRUE]

\* strings.Split at a one-character separator
RECURSIVE Split(_, _)
Split(s, c) ==
    LET cut == Cut(s, c)
    IN  IF cut.Found THEN <<cut.Before>> \o Split(cut.After, c) ELSE <<s>>

\* The %d verb of fmt.Sprintf
RECURSIVE FormatNat(_)
FormatNat(n) ==
    IF n < 10 THEN <<Digits[n + 1]>>
    ELSE Append(FormatNat(n \div 10), Digits[(n % 10) + 1])

FormatInt(n) == IF n < 0 THEN <<"-">> \o FormatNat(0 - n) ELSE FormatNat(n)

DigitValue(c) == (CHOOSE k \in 1..Len(Digits) : Digits[k] = c) - 1
IsDigit(c) == \E k \in 1..Len(Digits) : Digits[k] = c

RECURSIVE DecimalValue(_)
DecimalValue(s) ==
    IF s = <<>> THEN 0
    ELSE DecimalValue(SubSeq(s, 1, Len(s) - 1)) * 10 + DigitValue(s[Len(s)])

\* strconv.Atoi on a string short enough not to overflow an int: an optional
\* sign, then one or more decimal digits.
Atoi(s) ==
    LET digits == IF s # <<>> /\ s[1] \in {"+", "-"} THEN Tail(s) ELSE s
    IN  IF digits = <<>> \/ \E i \in 1..Len(digits) : ~IsDigit(digits[i])
        THEN [Value |-> 0, Err |-> "invalid syntax"]
        ELSE [Value |-> IF s[1] = "-" THEN 0 - DecimalValue(digits)
                        ELSE DecimalValue(digits),
              Err |-> Nil]

(***************************************************************************)
(* Auto-pool naming  (src/unnamed/part_001, 165-173)                       *)
(***************************************************************************)
\* SubnetPoolName with the first segment of the UID in place of the last.
SubnetPoolName_FirstSegment(controllerKind, controllerNS, controllerName, ipVersion, ifName, controllerUID) ==
    LET splits == Split(controllerUID, "-")
    IN  <<"a", "u", "t", "o", "-">> \o ToLower(controllerKind) \o <<"-">>
        \o ToLower(controllerNS) \o <<"-">> \o ToLower(controllerName) \o <<"-", "v">>
        \o FormatInt(ipVersion) \o <<"-">> \o ifName \o <<"-">> \o ToLower(splits[1])

\* SubnetPoolName
SubnetPoolName(controllerKind, controllerNS, controllerName, ipVersion, ifName, controllerUID) ==
    LET splits == Split(controllerUID, "-")
        lastOne == splits[Len(splits)]
    IN  <<"a", "u", "t", "o", "-">> \o ToLower(controllerKind) \o <<"-">>
        \o ToLower(controllerNS) \o <<"-">> \o ToLower(controllerName) \o <<"-", "v">>
        \o FormatInt(ipVersion) \o <<"-">> \o ifName \o <<"-">> \o ToLower(lastOne)

\* The inputs of the model.
ControllerKinds == {<<"J", "o", "b">>, <<"D", "a", "e", "m", "o", "n", "S", "e", "t">>}
ControllerNamespaces == {<<"n", "s">>, <<"N", "s">>}
ControllerNames == {<<"w", "e", "b">>}
IPVersions == {4, 6}
InterfaceNames == {<<"e", "t", "h", "0">>, <<"n", "e", "t", "1">>}
UIDChars == {"a", "A", "-"}
ControllerUIDs == SeqUpTo(UIDChars, MaxUIDLen)

\* Two reconcilers compute the pool name of a workload, interface and IP
\* version, each with the controller UID it read.
CallSubnetPoolName ==
    /\ nm = NmIdle
    /\ \E k \in ControllerKinds, ns \in ControllerNamespaces, n \in ControllerNames,
          v \in IPVersions, if \in InterfaceNames,
          u1 \in ControllerUIDs, u2 \in ControllerUIDs :
          nm' = <<[Kind |-> k, NS |-> ns, Name |-> n, Version |-> v, Interface |-> if,
                   UID1 |-> u1, UID2 |-> u2,
                   Pool1 |-> SubnetPoolName(k, ns, n, v, if, u1),
                   Pool2 |-> SubnetPoolName(k, ns, n, v, if, u2)]>>
    /\ UNCHANGED <<wh, store, pod, rv, pn, churn, jb, an, fr>>

NameInit ==
    /\ nm = NmIdle
    /\ wh = WhIdle
    /\ store = EmptyStore
    /\ pod = NoPod
    /\ rv = RvIdle
    /\ pn = PnIdle
    /\ churn = 0
    /\ jb = JbIdle
    /\ an = AnIdle
    /\ fr = FrIdle

NameNext == CallSubnetPoolName

SpecName == NameInit /\ [][NameNext]_vars

(***************************************************************************)
(* Pool IP number parsing  (src/unnamed/part_001, 370-390)                 *)
(***************************************************************************)
\* GetPoolIPNumber reading the part before the '+' in place of the part
\* after it.
GetPoolIPNumber_Before(str) ==
    LET plusSignNum == Count(str, "+")
    IN  IF plusSignNum = 0 \/ plusSignNum = 1
        THEN LET cut == Cut(str, "+")
                 tmp == IF cut.Found THEN cut.Before ELSE str
                 num == Atoi(tmp)
             IN  IF num.Err # Nil
                 THEN [IsFlexible |-> FALSE, IPNum |-> 0 - 1, Err |-> "invalid input"]
                 ELSE [IsFlexible |-> cut.Found, IPNum |-> num.Value, Err |-> Nil]
        ELSE [IsFlexible |-> FALSE, IPNum |-> 0 - 1, Err |-> "invalid input"]

\* GetPoolIPNumber
GetPoolIPNumber(str) ==
    LET plusSignNum == Count(str, "+")
    IN  IF plusSignNum = 0 \/ plusSignNum = 1
        THEN LET cut == Cut(str, "+")
                 tmp == IF cut.Found THEN cut.After ELSE str
                 num == Atoi(tmp)
             IN  IF num.Err # Nil
                 THEN [IsFlexible |-> FALSE, IPNum |-> 0 - 1, Err |-> "invalid input"]
                 ELSE [IsFlexible |-> cut.Found, IPNum |-> num.Value, Err |-> Nil]
        ELSE [IsFlexible |-> FALSE, IPNum |-> 0 - 1, Err |-> "invalid input"]

NumberChars == {"0", "1", "3", "5", "+", "-", "a"}
NumberStrings == SeqUpTo(NumberChars, MaxStrLen)

CallGetPoolIPNumber ==
    /\ pn = PnIdle
    /\ \E str \in NumberStrings :
          pn' = <<[In |-> str, Out |-> GetPoolIPNumber(str)]>>
    /\ UNCHANGED <<wh, store, pod, rv, nm, churn, jb, an, fr>>

NumberInit ==
    /\ pn = PnIdle
    /\ wh = WhIdle
    /\ store = EmptyStore
    /\ pod = NoPod
    /\ rv = RvIdle
    /\ nm = NmIdle
    /\ churn = 0
    /\ jb = JbIdle
    /\ an = AnIdle
    /\ fr = FrIdle

NumberNext == CallGetPoolIPNumber

SpecNumber == NumberInit /\ [][NumberNext]_vars

(***************************************************************************)
(* The admission framework calling the hooks.                              *)
(***************************************************************************)
WebhookInit ==
    /\ wh = WhIdle
    /\ store = EmptyStore
    /\ pod = NoPod
    /\ rv = RvIdle
    /\ nm = NmIdle
    /\ pn = PnIdle
    /\ churn = 0
    /\ jb = JbIdle
    /\ an = AnIdle
    /\ fr = FrIdle

WebhookNext == CallDefault \/ CallValidateCreate \/ CallValidateUpdate \/ CallValidateDelete

SpecWebhook == WebhookInit /\ [][WebhookNext]_vars

(***************************************************************************)
(* Properties of the webhook.                                              *)
(***************************************************************************)
Range(f) == {f[i] : i \in DOMAIN f}

\* new differs from old in its finalizers at most.
OnlyFinalizersDiffer(old, new) ==
    /\ old.Name = new.Name
    /\ old.DeletionTimestamp = new.DeletionTimestamp
    /\ old.Spec = new.Spec

\* C1: ValidateUpdate on a new object with a deletion timestamp that still
\* holds the spiderpool finalizer is denied as Forbidden, whatever the spec
\* change; on a new object with a deletion timestamp, without the finalizer
\* and otherwise equal to the old object, it is allowed.
C1_TerminatingUpdate ==
    (wh.Op = "ValidateUpdate" /\ wh.New.DeletionTimestamp # Nil) =>
        /\ SpiderFinalizer \in Range(wh.New.Finalizers) =>
              wh.Result.Status = "Forbidden"
        /\ (SpiderFinalizer \notin Range(wh.New.Finalizers)
            /\ OnlyFinalizersDiffer(wh.Old, wh.New)) =>
              wh.Result.Status = "nil"

\* C1 witness: a spec change on a terminating Subnet that holds the
\* finalizer was denied.
C1_Witness ==
    /\ wh.Op = "ValidateUpdate"
    /\ wh.New.DeletionTimestamp # Nil
    /\ SpiderFinalizer \in Range(wh.New.Finalizers)
    /\ wh.Old.Spec # wh.New.Spec
    /\ wh.Errs = <<>>
    /\ wh.Result.Status = "Forbidden"

\* C2: while the new object carries a deletion timestamp, ValidateUpdate
\* allows an update only if the finalizers are the sole difference between
\* the old and the new object.
C2_OnlyFinalizerRemovalAllowed ==
    (wh.Op = "ValidateUpdate" /\ wh.New.DeletionTimestamp # Nil
     /\ wh.Result.Status = "nil") =>
        OnlyFinalizersDiffer(wh.Old, wh.New)

(***************************************************************************)
(* Properties of the resolver.                                             *)
(***************************************************************************)
Done == rv.PC = "done"
NoErr == rv.Err = <<>>
ApiFailed == \E i \in 1..Len(rv.Gets) : rv.Gets[i].Err = "api error"

\* The controller reference of o, when o has one of the given group and kind.
ControlledBy(o, apiVersion, kind) ==
    \E i \in 1..Len(o.OwnerReferences) :
        /\ o.OwnerReferences[i].Controller
        /\ \A j \in 1..(i - 1) : ~o.OwnerReferences[j].Controller
        /\ o.OwnerReferences[i].APIVersion = apiVersion
        /\ o.OwnerReferences[i].Kind = kind

HasController(o) == \E i \in 1..Len(o.OwnerReferences) : o.OwnerReferences[i].Controller

Stored(kind) == store[<<kind, pod.Namespace, WorkloadName>>]

\* The object of kind top that the controller reference of the stored mid
\* object names, if the store holds it.
StoredTop(mid, top) ==
    store[<<top, pod.Namespace, Val(Stored(mid)).OwnerReferences[1].Name>>]

\* The call returned the object o as the top controller of kind.
Resolved(kind, o) ==
    /\ NoErr
    /\ rv.Result = PodTopController(kind, o.Namespace, o.Name, o.UID, Some(o))

\* The pod's chain pod -> mid -> top is in the store.
Chain(midGroup, mid, top) ==
    /\ ControlledBy(pod, midGroup, mid)
    /\ Stored(mid) # None
    /\ ControlledBy(Val(Stored(mid)), GroupOf(top), top)
    /\ StoredTop(mid, top) # None

\* The pod's controller mid is in the store and has no controller itself.
TopMid(midGroup, mid) ==
    /\ ControlledBy(pod, midGroup, mid)
    /\ Stored(mid) # None
    /\ ~HasController(Val(Stored(mid)))

\* C3: the resolver returns the highest resolvable owner: ReplicaSet ->
\* Deployment gives the Deployment, Job -> CronJob the CronJob, a ReplicaSet
\* or Job without controller itself, a DaemonSet or StatefulSet itself, and
\* a pod without controller the pod (when the API server fails no request
\* and no other client changes the store during the call).
C3_TopController ==
    (Done /\ ~ApiFailed /\ churn = 0) =>
        /\ Chain(AppsV1, KindReplicaSet, KindDeployment) =>
              Resolved(KindDeployment, Val(StoredTop(KindReplicaSet, KindDeployment)))
        /\ Chain(BatchV1, KindJob, KindCronJob) =>
              Resolved(KindCronJob, Val(StoredTop(KindJob, KindCronJob)))
        /\ TopMid(AppsV1, KindReplicaSet) =>
              Resolved(KindReplicaSet, Val(Stored(KindReplicaSet)))
        /\ TopMid(BatchV1, KindJob) => Resolved(KindJob, Val(Stored(KindJob)))
        /\ (ControlledBy(pod, AppsV1, KindDaemonSet) /\ Stored(KindDaemonSet) # None) =>
              Resolved(KindDaemonSet, Val(Stored(KindDaemonSet)))
        /\ (ControlledBy(pod, AppsV1, KindStatefulSet) /\ Stored(KindStatefulSet) # None) =>
              Resolved(KindStatefulSet, Val(Stored(KindStatefulSet)))
        /\ ~HasController(pod) => Resolved(KindPod, pod)

\* C3 witness: a pod of a ReplicaSet of a Deployment resolved to the
\* Deployment in two fetches.
C3_Witness ==
    /\ Done
    /\ churn = 0
    /\ Chain(AppsV1, KindReplicaSet, KindDeployment)
    /\ Len(rv.Gets) = 2
    /\ rv.Result.Kind = KindDeployment
    /\ rv.Result.Name = "w2"
    /\ rv.Result.APP = store[<<KindDeployment, pod.Namespace, "w2">>]

\* C4: when a fetch fails (not found or API error, first or second hop) the
\* call returns an error and the empty PodTopController.
C4_FetchFailurePropagates ==
    (Done /\ \E i \in 1..Len(rv.Gets) : rv.Gets[i].Err # Nil) =>
        /\ rv.Err # <<>>
        /\ rv.Err[Len(rv.Err)] = rv.Gets[Len(rv.Gets)].Err
        /\ rv.Result = EmptyTopController

\* C4 witness: the second fetch found no object and the call failed.
C4_Witness ==
    /\ Done
    /\ Len(rv.Gets) = 2
    /\ rv.Gets[2].Err = "not found"
    /\ rv.Err # <<>>

\* C5: a pod whose controller's API group is neither apps nor batch resolves
\* to Unknown with the controller's name and UID, no App, no error and no
\* fetch.
C5_ThirdPartyNoFetch ==
    (Done /\ \E k \in MidKinds \cup {KindDeployment, KindThirdParty} :
                 ControlledBy(pod, ThirdPartyV1, k)) =>
        /\ NoErr
        /\ rv.Result.Kind = KindUnknown
        /\ rv.Result.Name = pod.OwnerReferences[1].Name
        /\ rv.Result.UID = pod.OwnerReferences[1].UID
        /\ rv.Result.APP = None
        /\ rv.Gets = <<>>

\* C5 witness: the controller is a third-party object whose kind is called
\* ReplicaSet, a ReplicaSet of that name exists, and nothing was fetched.
C5_Witness ==
    /\ Done
    /\ ControlledBy(pod, ThirdPartyV1, KindReplicaSet)
    /\ Stored(KindReplicaSet) # None
    /\ rv.Result.Kind = KindUnknown
    /\ rv.Gets = <<>>

\* C6: when the controller of the fetched ReplicaSet or Job belongs to
\* neither the apps nor the batch group, the call returns Unknown without
\* fetching it, whatever its kind is called.
C6_IntermediateThirdPartyStops ==
    (Done /\ Len(rv.Gets) >= 1 /\ rv.Gets[1].Err = Nil
     /\ \E k \in TopKinds \cup {KindThirdParty} :
           ControlledBy(Val(rv.First), ThirdPartyV1, k)) =>
        /\ NoErr
        /\ rv.Result.Kind = KindUnknown
        /\ Len(rv.Gets) = 1

\* C7: a call that returns without error returns an owner of the pod's
\* chain: each fetched object has the UID of the owner reference that led
\* to it.
C7_NoStaleLink ==
    (Done /\ NoErr /\ Len(rv.Gets) >= 1) =>
        /\ Val(rv.First).UID = Val(rv.Owner).UID
        /\ Len(rv.Gets) = 2 =>
              Val(rv.Result.APP).UID = Val(GetControllerOf(Val(rv.First))).UID

(***************************************************************************)
(* Properties of the pool naming scheme.                                   *)
(***************************************************************************)
Named == nm # NmIdle

\* The part of a UID after its last hyphen (all of it when it has none).
UIDTail(u) ==
    LET hyphens == {i \in 1..Len(u) : u[i] = "-"}
        last == IF hyphens = {} THEN 0
                ELSE CHOOSE i \in hyphens : \A j \in hyphens : j <= i
    IN  SubSeq(u, last + 1, Len(u))

\* Two strings equal up to the case of their letters.
EqualFold(a, b) ==
    /\ Len(a) = Len(b)
    /\ \A i \in 1..Len(a) : ToLower(<<a[i]>>) = ToLower(<<b[i]>>)

\* C8 as stated: two inputs equal in everything but the controller UID get
\* different names.
C8_CollisionFreeAcrossUIDs ==
    (Named /\ nm[1].UID1 # nm[1].UID2) => nm[1].Pool1 # nm[1].Pool2

\* C8 as amended: equal inputs give equal names, and two inputs equal in
\* everything but the controller UID get different names exactly when the
\* last hyphen-delimited segments of the UIDs differ in more than letter case.
C8_CollisionFreeAcrossUIDTails ==
    Named =>
        /\ nm[1].UID1 = nm[1].UID2 => nm[1].Pool1 = nm[1].Pool2
        /\ nm[1].Pool1 # nm[1].Pool2 <=>
              ~EqualFold(UIDTail(nm[1].UID1), UIDTail(nm[1].UID2))

\* C8 witness: two UIDs with different last segments got different names,
\* both ending in their own lower-cased segment.
C8_Witness ==
    /\ Named
    /\ nm[1].UID1 = <<"a", "-", "A">>
    /\ nm[1].UID2 = <<"a", "-">>
    /\ nm[1].Pool1 # nm[1].Pool2
    /\ nm[1].Pool1[Len(nm[1].Pool1)] = "a"
    /\ nm[1].Pool2[Len(nm[1].Pool2)] = "-"

(***************************************************************************)
(* Properties of the pool IP number parser.                                *)
(***************************************************************************)
Parsed == pn # PnIdle

\* The decimal string of a non-negative integer: digits, no leading zero.
IsDecimal(s) ==
    /\ s # <<>>
    /\ \A i \in 1..Len(s) : IsDigit(s[i])
    /\ Len(s) > 1 => s[1] # "0"

\* Digits only, at least one.
IsDigits(s) == s # <<>> /\ \A i \in 1..Len(s) : IsDigit(s[i])

\* s with every '+' removed.
StripPlus(s) == SelectSeq(s, LAMBDA c : c # "+")

Failed(out) == out.Err # Nil /\ out.IsFlexible = FALSE /\ out.IPNum = -1

\* C9 as stated: the decimal string of N gives (false, N, nil), and the
\* decimal string of N followed by a '+' gives (true, N, nil).
C9_PlusSuffixIsFlexible ==
    Parsed =>
        LET s == pn[1].In
            out == pn[1].Out
        IN  /\ IsDecimal(s) =>
                  out.Err = Nil /\ ~out.IsFlexible /\ FormatInt(out.IPNum) = s
            /\ (Len(s) > 1 /\ s[Len(s)] = "+" /\ IsDecimal(SubSeq(s, 1, Len(s) - 1))) =>
                  /\ out.Err = Nil /\ out.IsFlexible
                  /\ FormatInt(out.IPNum) = SubSeq(s, 1, Len(s) - 1)

\* C9 as amended: the decimal string of N gives (false, N, nil); a '+'
\* followed by the decimal string of N gives (true, N, nil); the decimal
\* string of N followed by a '+' gives an error with (false, -1).
C9_PlusPrefixIsFlexible ==
    Parsed =>
        LET s == pn[1].In
            out == pn[1].Out
        IN  /\ IsDecimal(s) =>
                  out.Err = Nil /\ ~out.IsFlexible /\ FormatInt(out.IPNum) = s
            /\ (Len(s) > 1 /\ s[1] = "+" /\ IsDecimal(Tail(s))) =>
                  out.Err = Nil /\ out.IsFlexible /\ FormatInt(out.IPNum) = Tail(s)
            /\ (Len(s) > 1 /\ s[Len(s)] = "+" /\ IsDecimal(SubSeq(s, 1, Len(s) - 1))) =>
                  Failed(out)

\* C9 witness: "+35" was parsed as the flexible count 35.
C9_Witness ==
    /\ Parsed
    /\ pn[1].In = <<"+", "3", "5">>
    /\ pn[1].Out = [IsFlexible |-> TRUE, IPNum |-> 35, Err |-> Nil]

\* C10: an input with more than one '+', or whose remainder without the '+'
\* is not a non-negative decimal integer, as "1+3+", "a", "5+3" and "-5",
\* gives an error with (false, -1).
C10_MalformedIsError ==
    Parsed =>
        LET s == pn[1].In
            out == pn[1].Out
        IN  /\ Count(s, "+") > 1 => Failed(out)
            /\ ~IsDigits(StripPlus(s)) => Failed(out)
            /\ s \in {<<"1", "+", "3", "+">>, <<"a">>, <<"5", "+", "3">>, <<"-", "5">>} =>
                  Failed(out)

(***************************************************************************)
(* Job pod demand  (src/unnamed/part_001, 395-426)                         *)
(***************************************************************************)
\* CalculateJobPodNum letting the parallelism decide when both are set.
CalculateJobPodNum_ParallelismWins(jobSpecParallelism, jobSpecCompletions) ==
    IF jobSpecParallelism # None
    THEN IF Val(jobSpecParallelism) = 0 THEN 1 ELSE Val(jobSpecParallelism)
    ELSE IF jobSpecCompletions # None
    THEN IF Val(jobSpecCompletions) = 0 THEN 1 ELSE Val(jobSpecCompletions)
    ELSE 1

\* CalculateJobPodNum; a *int32 is None or Some(n).
CalculateJobPodNum(jobSpecParallelism, jobSpecCompletions) ==
    IF jobSpecParallelism # None /\ jobSpecCompletions = None
    THEN IF Val(jobSpecParallelism) = 0 THEN 1 ELSE Val(jobSpecParallelism)
    ELSE IF jobSpecParallelism = None /\ jobSpecCompletions # None
    THEN IF Val(jobSpecCompletions) = 0 THEN 1 ELSE Val(jobSpecCompletions)
    ELSE IF jobSpecParallelism # None /\ jobSpecCompletions # None
    THEN IF Val(jobSpecCompletions) = 0 THEN 1 ELSE Val(jobSpecCompletions)
    ELSE 1

\* The *int32 values of the model.
JobNums == {None} \cup {Some(n) : n \in (0 - MaxJobNum)..MaxJobNum}

CallCalculateJobPodNum ==
    /\ jb = JbIdle
    /\ \E par \in JobNums, com \in JobNums :
          jb' = <<[Parallelism |-> par, Completions |-> com,
                   Out |-> CalculateJobPodNum(par, com)]>>
    /\ UNCHANGED <<wh, store, pod, rv, nm, pn, churn, an, fr>>

JobInit ==
    /\ jb = JbIdle
    /\ an = AnIdle
    /\ fr = FrIdle
    /\ wh = WhIdle
    /\ store = EmptyStore
    /\ pod = NoPod
    /\ rv = RvIdle
    /\ nm = NmIdle
    /\ pn = PnIdle
    /\ churn = 0

JobNext == CallCalculateJobPodNum

SpecJob == JobInit /\ [][JobNext]_vars

\* Properties of the job pod demand.
Max(a, b) == IF a >= b THEN a ELSE b

\* The value that decides the demand: the completions when set, else the
\* parallelism when set.
Deciding(j) ==
    IF j.Completions # None THEN j.Completions ELSE j.Parallelism

\* C11 as stated: the result is 1 when both are nil, max(1, parallelism)
\* when only the parallelism is set, max(1, completions) whenever the
\* completions are set; hence it is at least 1 for every input.
C11_AtLeastOne ==
    jb # JbIdle =>
        /\ Deciding(jb[1]) = None => jb[1].Out = 1
        /\ Deciding(jb[1]) # None => jb[1].Out = Max(1, Val(Deciding(jb[1])))
        /\ jb[1].Out >= 1

\* C11 as amended: the result is 1 when both are nil; otherwise, with v the
\* completions when set and the parallelism when not, it is max(1, v) for
\* v >= 0 and v itself for v < 0.
C11_NegativePassesThrough ==
    jb # JbIdle =>
        /\ Deciding(jb[1]) = None => jb[1].Out = 1
        /\ (Deciding(jb[1]) # None /\ Val(Deciding(jb[1])) >= 0) =>
              jb[1].Out = Max(1, Val(Deciding(jb[1])))
        /\ (Deciding(jb[1]) # None /\ Val(Deciding(jb[1])) < 0) =>
              jb[1].Out = Val(Deciding(jb[1]))

\* C11 witness: parallelism 2 and completions 5 gave 5.
C11_Witness ==
    /\ jb # JbIdle
    /\ jb[1].Parallelism = Some(2)
    /\ jb[1].Completions = Some(5)
    /\ jb[1].Out = 5

(***************************************************************************)
(* Pod subnet annotations  (src/unnamed/part_001, 227-367, 429-471)        *)
(* An annotation value holding JSON is modelled by what json.Unmarshal     *)
(* makes of it: malformed, null, or the decoded value.                     *)
(***************************************************************************)
ClusterDefaultInterfaceName == "eth0"

\* The byte order of the subnet and interface names of the model.
StringOrder == <<"", "a", "b", "eth0", "net1", "x", "y">>
Rank(str) == CHOOSE k \in 1..Len(StringOrder) : StringOrder[k] = str

\* sort.Strings
RECURSIVE SortStrings(_)
SortStrings(arr) ==
    IF Len(arr) <= 1 THEN arr
    ELSE LET rest == SortStrings(Tail(arr))
             before == SelectSeq(rest, LAMBDA x : Rank(x) < Rank(Head(arr)))
             after == SelectSeq(rest, LAMBDA x : Rank(x) >= Rank(Head(arr)))
         IN  before \o <<Head(arr)>> \o after

\* containsDuplicate
containsDuplicate(arr) ==
    LET sorted == SortStrings(arr)
    IN  \E i \in 2..Len(sorted) : sorted[i] = sorted[i - 1]

\* strconv.ParseBool
ParseBool(str) ==
    IF str \in {"1", "t", "T", "TRUE", "true", "True"} THEN [Value |-> TRUE, Err |-> Nil]
    ELSE IF str \in {"0", "f", "F", "FALSE", "false", "False"}
    THEN [Value |-> FALSE, Err |-> Nil]
    ELSE [Value |-> FALSE, Err |-> "invalid syntax"]

\* ShouldReclaimIPPool; anno.Reclaim is the annotation's value, if present.
ShouldReclaimIPPool(anno) ==
    IF anno.Reclaim # None
    THEN LET parsed == ParseBool(Val(anno.Reclaim))
         IN  IF parsed.Err # Nil
             THEN [Value |-> FALSE, Err |-> "failed to parse reclaim-ippool"]
             ELSE [Value |-> parsed.Value, Err |-> Nil]
    ELSE [Value |-> TRUE, Err |-> Nil]

\* types.AnnoSubnetItem
AnnoSubnetItem(ifName, v4, v6) == [Interface |-> ifName, IPv4 |-> v4, IPv6 |-> v6]

\* types.PodSubnetAnnoConfig
PodSubnetAnnoConfig(multiple, single, flexible, assign, reclaim) ==
    [MultipleSubnets |-> multiple, SingleSubnet |-> single, FlexibleIPNum |-> flexible,
     AssignIPNum |-> assign, ReclaimIPPool |-> reclaim]

\* The loop of mutateAndValidateSubnetAnno over MultipleSubnets from entry
\* index on (lines 307-329): the entries as mutated so far, the collected
\* arrays, and the error that ended the loop.
RECURSIVE MutateMultiple(_, _, _, _, _)
MutateMultiple(items, index, v4SubnetsArray, v6SubnetsArray, ifNameArray) ==
    IF index > Len(items)
    THEN [Items |-> items, V4 |-> v4SubnetsArray, V6 |-> v6SubnetsArray,
          IfNames |-> ifNameArray, Err |-> Nil]
    ELSE
    LET item == items[index]
        ifs == Append(ifNameArray, item.Interface)
        cut4 == IF Len(item.IPv4) # 0 THEN <<item.IPv4[1]>> ELSE item.IPv4
        cut6 == IF Len(item.IPv6) # 0 THEN <<item.IPv6[1]>> ELSE item.IPv6
        items4 == [items EXCEPT ![index].IPv4 = cut4]
        items6 == [items4 EXCEPT ![index].IPv6 = cut6]
        v4 == IF Len(cut4) # 0 THEN Append(v4SubnetsArray, cut4[1]) ELSE v4SubnetsArray
        v6 == IF Len(cut6) # 0 THEN Append(v6SubnetsArray, cut6[1]) ELSE v6SubnetsArray
        stop(its, err) == [Items |-> its, V4 |-> v4SubnetsArray, V6 |-> v6SubnetsArray,
                           IfNames |-> ifs, Err |-> err]
    IN  IF Len(cut4) # 0 /\ cut4[1] = ""
        THEN stop(items4, "empty IPv4 subnet with multiple interfaces")
        ELSE IF Len(cut6) # 0 /\ cut6[1] = ""
        THEN stop(items6, "empty IPv6 subnet with multiple interfaces")
        ELSE IF Len(cut4) = 0 /\ Len(cut6) = 0
        THEN stop(items6, "dual empty subnet with multiple interfaces")
        ELSE MutateMultiple(items6, index + 1, v4, v6, ifs)

\* mutateAndValidateSubnetAnno sorting MultipleSubnets by interface name
\* while it looks for duplicates.
mutateAndValidateSubnetAnno_SortsEntries(subnetConfig) ==
    LET loop == MutateMultiple(subnetConfig.MultipleSubnets, 1, <<>>, <<>>, <<>>)
        names == SortStrings(loop.IfNames)
        sorted == [i \in 1..Len(loop.Items) |->
                      loop.Items[CHOOSE k \in 1..Len(loop.Items) :
                                     loop.Items[k].Interface = names[i]]]
    IN  IF Len(subnetConfig.MultipleSubnets) # 0 /\ loop.Err = Nil
           /\ ~containsDuplicate(loop.V4) /\ ~containsDuplicate(loop.V6)
           /\ ~containsDuplicate(loop.IfNames)
        THEN [Config |-> [subnetConfig EXCEPT !.MultipleSubnets = sorted], Err |-> Nil]
        ELSE [Config |-> subnetConfig, Err |-> "invalid"]

\* mutateAndValidateSubnetAnno accepting entries that share an interface name.
mutateAndValidateSubnetAnno_NoInterfaceCheck(subnetConfig) ==
    LET loop == MutateMultiple(subnetConfig.MultipleSubnets, 1, <<>>, <<>>, <<>>)
    IN  IF Len(subnetConfig.MultipleSubnets) # 0 /\ loop.Err = Nil
           /\ ~containsDuplicate(loop.V4) /\ ~containsDuplicate(loop.V6)
        THEN [Config |-> [subnetConfig EXCEPT !.MultipleSubnets = loop.Items], Err |-> Nil]
        ELSE [Config |-> subnetConfig, Err |-> "invalid"]

\* mutateAndValidateSubnetAnno accepting a config that names no subnet.
mutateAndValidateSubnetAnno_AcceptsNone(subnetConfig) ==
    LET loop == MutateMultiple(subnetConfig.MultipleSubnets, 1, <<>>, <<>>, <<>>)
    IN  IF Len(subnetConfig.MultipleSubnets) # 0
           /\ (loop.Err # Nil \/ containsDuplicate(loop.V4) \/ containsDuplicate(loop.V6)
               \/ containsDuplicate(loop.IfNames))
        THEN [Config |-> subnetConfig, Err |-> "invalid"]
        ELSE [Config |-> [subnetConfig EXCEPT !.MultipleSubnets = loop.Items], Err |-> Nil]

\* mutateAndValidateSubnetAnno: the config as the call leaves it, and the
\* error it returns.
mutateAndValidateSubnetAnno(subnetConfig) ==
    IF Len(subnetConfig.MultipleSubnets) # 0
    THEN LET loop == MutateMultiple(subnetConfig.MultipleSubnets, 1, <<>>, <<>>, <<>>)
             cfg == [subnetConfig EXCEPT !.MultipleSubnets = loop.Items]
         IN  IF loop.Err # Nil THEN [Config |-> cfg, Err |-> loop.Err]
             ELSE IF containsDuplicate(loop.V4) \/ containsDuplicate(loop.V6)
             THEN [Config |-> cfg, Err |-> "same subnet for multiple interfaces"]
             ELSE IF containsDuplicate(loop.IfNames)
             THEN [Config |-> cfg, Err |-> "same Interface name for multiple interfaces"]
             ELSE [Config |-> cfg, Err |-> Nil]
    ELSE IF subnetConfig.SingleSubnet # None
    THEN LET item == Val(subnetConfig.SingleSubnet)
             cut4 == IF Len(item.IPv4) # 0 THEN <<item.IPv4[1]>> ELSE item.IPv4
             cut6 == IF Len(item.IPv6) # 0 THEN <<item.IPv6[1]>> ELSE item.IPv6
             item4 == [item EXCEPT !.IPv4 = cut4]
             item6 == [item4 EXCEPT !.IPv6 = cut6]
             named == [item6 EXCEPT !.Interface =
                          IF @ = "" THEN ClusterDefaultInterfaceName ELSE @]
             with(it) == [subnetConfig EXCEPT !.SingleSubnet = Some(it)]
         IN  IF Len(cut4) # 0 /\ cut4[1] = ""
             THEN [Config |-> with(item4), Err |-> "empty IPv4 subnet with single interface"]
             ELSE IF Len(cut6) # 0 /\ cut6[1] = ""
             THEN [Config |-> with(item6), Err |-> "empty IPv6 subnet with single interface"]
             ELSE IF Len(cut4) = 0 /\ Len(cut6) = 0
             THEN [Config |-> with(item6), Err |-> "dual empty subnet with single interface"]
             ELSE [Config |-> with(named), Err |-> Nil]
    ELSE [Config |-> subnetConfig, Err |-> "no subnets specified"]

\* What GetSubnetAnnoConfig returns: a *PodSubnetAnnoConfig and an error.
AnnoResult(config, err) == [Config |-> config, Err |-> err]

\* GetSubnetAnnoConfig returning the config it built beside a negative
\* pool IP number.
GetSubnetAnnoConfig_NegativeAccepted(podAnnotations, clusterDefaultFlexibleIPNumber) ==
    IF podAnnotations.Subnets = None /\ podAnnotations.Subnet = None
    THEN AnnoResult(None, Nil)
    ELSE LET num == IF podAnnotations.IPNumber # None
                    THEN GetPoolIPNumber(Val(podAnnotations.IPNumber))
                    ELSE [IsFlexible |-> TRUE, IPNum |-> clusterDefaultFlexibleIPNumber,
                          Err |-> Nil]
             multiple == IF podAnnotations.Subnets # None
                            /\ Val(podAnnotations.Subnets).JSON = "value"
                         THEN Val(podAnnotations.Subnets).Items ELSE <<>>
             single == IF podAnnotations.Subnets = None
                          /\ Val(podAnnotations.Subnet).JSON = "value"
                       THEN Some(Val(podAnnotations.Subnet).Item) ELSE None
             checked == mutateAndValidateSubnetAnno(
                           PodSubnetAnnoConfig(multiple, single,
                               IF num.IsFlexible THEN Some(num.IPNum) ELSE None,
                               IF num.IsFlexible THEN 0 ELSE num.IPNum, TRUE))
         IN  IF num.Err # Nil \/ checked.Err # Nil
             THEN AnnoResult(None, "invalid")
             ELSE AnnoResult(Some(checked.Config), Nil)

\* GetSubnetAnnoConfig; clusterDefaultFlexibleIPNumber is
\* singletons.ClusterDefaultPool.ClusterSubnetDefaultFlexibleIPNumber.
GetSubnetAnnoConfig(podAnnotations, clusterDefaultFlexibleIPNumber) ==
    LET empty == PodSubnetAnnoConfig(<<>>, None, None, 0, FALSE)
        decoded ==
            IF podAnnotations.Subnets # None
            THEN LET subnets == Val(podAnnotations.Subnets)
                 IN  IF subnets.JSON = "malformed"
                     THEN [Config |-> empty, Err |-> "failed to parse subnets", Found |-> TRUE]
                     ELSE [Config |-> [empty EXCEPT !.MultipleSubnets =
                                          IF subnets.JSON = "null" THEN <<>>
                                          ELSE subnets.Items],
                           Err |-> Nil, Found |-> TRUE]
            ELSE IF podAnnotations.Subnet # None
            THEN LET subnet == Val(podAnnotations.Subnet)
                 IN  IF subnet.JSON = "malformed"
                     THEN [Config |-> empty, Err |-> "failed to parse subnet", Found |-> TRUE]
                     ELSE [Config |-> [empty EXCEPT !.SingleSubnet =
                                          IF subnet.JSON = "null" THEN None
                                          ELSE Some(subnet.Item)],
                           Err |-> Nil, Found |-> TRUE]
            ELSE [Config |-> empty, Err |-> Nil, Found |-> FALSE]
    IN  IF ~decoded.Found THEN AnnoResult(None, Nil)
        ELSE IF decoded.Err # Nil THEN AnnoResult(None, decoded.Err)
        ELSE
        LET num == IF podAnnotations.IPNumber # None
                   THEN GetPoolIPNumber(Val(podAnnotations.IPNumber))
                   ELSE [IsFlexible |-> TRUE, IPNum |-> clusterDefaultFlexibleIPNumber,
                         Err |-> Nil]
            counted == IF num.IsFlexible
                       THEN [decoded.Config EXCEPT !.FlexibleIPNum = Some(num.IPNum)]
                       ELSE [decoded.Config EXCEPT !.AssignIPNum = num.IPNum]
            reclaimPool == ShouldReclaimIPPool(podAnnotations)
            checked == mutateAndValidateSubnetAnno(
                          [counted EXCEPT !.ReclaimIPPool = reclaimPool.Value])
        IN  IF num.Err # Nil THEN AnnoResult(None, num.Err)
            ELSE IF podAnnotations.IPNumber # None /\ num.IPNum < 0
            THEN AnnoResult(None, "ippool-ip-number must equal or greater than 0")
            ELSE IF reclaimPool.Err # Nil THEN AnnoResult(None, reclaimPool.Err)
            ELSE IF checked.Err # Nil THEN AnnoResult(None, checked.Err)
            ELSE AnnoResult(Some(checked.Config), Nil)

\* The return statement IsDefaultIPPoolMode reaches (lines 430-444).
IsDefaultIPPoolModeReturn(subnetConfig) ==
    IF subnetConfig = None THEN "nil"
    ELSE IF Len(Val(subnetConfig).MultipleSubnets) # 0 THEN "multiple"
    ELSE IF Val(subnetConfig).SingleSubnet # None THEN "single"
    ELSE "fallthrough"

\* IsDefaultIPPoolMode answering true at its last return.
IsDefaultIPPoolMode_TrueAtEnd(subnetConfig) ==
    IsDefaultIPPoolModeReturn(subnetConfig) \in {"nil", "single", "fallthrough"}

\* IsDefaultIPPoolMode: only the first return gives true.
IsDefaultIPPoolMode(subnetConfig) == IsDefaultIPPoolModeReturn(subnetConfig) = "nil"

\* The pod annotations the resolver reads; an absent annotation is None.
PodAnnotations(subnets, subnet, ipNumber, reclaim) ==
    [Subnets |-> subnets, Subnet |-> subnet, IPNumber |-> ipNumber, Reclaim |-> reclaim]

\* What json.Unmarshal makes of an annotation value.
Malformed == [JSON |-> "malformed"]
JSONNull == [JSON |-> "null"]
JSONItems(items) == [JSON |-> "value", Items |-> items]
JSONItem(item) == [JSON |-> "value", Item |-> item]

IPv4Lists == {<<>>, <<"">>, <<"a">>, <<"a", "b">>, <<"b", "a">>}
IPv6Lists == {<<>>, <<"x">>, <<"y">>}
MultiItems == {AnnoSubnetItem(i, v4, v6) : i \in {"eth0", "net1"}, v4 \in IPv4Lists, v6 \in IPv6Lists}
SingleItems == {AnnoSubnetItem(i, v4, v6) : i \in {"", "net1"}, v4 \in IPv4Lists, v6 \in IPv6Lists}
GoodItem == AnnoSubnetItem("net1", <<"a">>, <<"x">>)
GoodItems == <<AnnoSubnetItem("net1", <<"b", "a">>, <<>>), AnnoSubnetItem("eth0", <<"a">>, <<"x">>)>>

SubnetsValues == {Malformed, JSONNull} \cup {JSONItems(l) : l \in SeqUpTo(MultiItems, MaxSubnetItems)}
SubnetValues == {Malformed, JSONNull} \cup {JSONItem(i) : i \in SingleItems}
IPNumberValues == {<<"5">>, <<"+", "3">>, <<"0">>, <<"-", "5">>, <<"+", "-", "1">>, <<"a">>}
ReclaimValues == {"true", "false", "0", "maybe"}
ClusterDefaults == {0 - 1, 0, 2}

Opt(S) == {None} \cup {Some(x) : x \in S}

\* The calls of the model: every shape of the two subnet annotations with
\* the other annotations well formed, and every value of the other
\* annotations with the subnet annotations absent or well formed.
AnnoCalls ==
    {<<PodAnnotations(Some(m), s, n, None), 2>> :
        m \in SubnetsValues, s \in {None, Some(JSONItem(GoodItem))}, n \in {None, Some(<<"+", "3">>)}}
    \cup
    {<<PodAnnotations(None, s, n, None), 2>> :
        s \in Opt(SubnetValues), n \in {None, Some(<<"5">>)}}
    \cup
    {<<PodAnnotations(m, s, n, r), d>> :
        m \in {None, Some(JSONItems(GoodItems))}, s \in {None, Some(JSONItem(GoodItem))},
        n \in Opt(IPNumberValues), r \in Opt(ReclaimValues), d \in ClusterDefaults}

\* A call of GetSubnetAnnoConfig that fills in the pool IP number it
\* defaulted by writing it to the pod's annotations.
GetSubnetAnnoConfigOnMap_WritesDefault(podAnnotations, clusterDefaultFlexibleIPNumber) ==
    [Out |-> GetSubnetAnnoConfig(podAnnotations, clusterDefaultFlexibleIPNumber),
     Annotations |->
        IF (podAnnotations.Subnets # None \/ podAnnotations.Subnet # None)
           /\ podAnnotations.IPNumber = None
        THEN [podAnnotations EXCEPT
                 !.IPNumber = Some(FormatInt(clusterDefaultFlexibleIPNumber))]
        ELSE podAnnotations]

\* A call of GetSubnetAnnoConfig on the map podAnnotations: what it returns,
\* and the map as the call leaves it.  The map is passed by reference and
\* the function only looks keys up in it (lines 231, 240, 259 and, in
\* ShouldReclaimIPPool, 460); no statement assigns to or deletes from it.
GetSubnetAnnoConfigOnMap(podAnnotations, clusterDefaultFlexibleIPNumber) ==
    [Out |-> GetSubnetAnnoConfig(podAnnotations, clusterDefaultFlexibleIPNumber),
     Annotations |-> podAnnotations]

\* A first call of GetSubnetAnnoConfig on a pod's annotations, and of
\* IsDefaultIPPoolMode on what it returned.  Annotations is the map as it
\* was given, Map the pod's map as the calls so far left it.
CallGetSubnetAnnoConfig ==
    /\ an = AnIdle
    /\ \E call \in AnnoCalls :
          LET done == GetSubnetAnnoConfigOnMap(call[1], call[2])
          IN  an' = <<[Annotations |-> call[1], Default |-> call[2],
                       Map |-> done.Annotations, Out |-> done.Out,
                       Mode |-> IsDefaultIPPoolMode(done.Out.Config), Again |-> None]>>
    /\ UNCHANGED <<wh, store, pod, rv, nm, pn, churn, jb, fr>>

\* A second call on the pod's map as the first call left it, the cluster
\* default unchanged.
CallGetSubnetAnnoConfigAgain ==
    /\ an # AnIdle
    /\ an[1].Again = None
    /\ LET done == GetSubnetAnnoConfigOnMap(an[1].Map, an[1].Default)
       IN  an' = <<[an[1] EXCEPT !.Map = done.Annotations, !.Again = Some(done.Out)]>>
    /\ UNCHANGED <<wh, store, pod, rv, nm, pn, churn, jb, fr>>

AnnoInit ==
    /\ wh = WhIdle /\ store = EmptyStore /\ pod = NoPod /\ rv = RvIdle
    /\ nm = NmIdle /\ pn = PnIdle /\ churn = 0
    /\ jb = JbIdle /\ an = AnIdle /\ fr = FrIdle

AnnoNext == CallGetSubnetAnnoConfig \/ CallGetSubnetAnnoConfigAgain

SpecAnno == AnnoInit /\ [][AnnoNext]_vars

(***************************************************************************)
(* Properties of the annotation resolver.                                  *)
(***************************************************************************)
Resolving == an # AnIdle
Annos == an[1].Annotations
Returned == an[1].Out
Succeeded == Resolving /\ Returned.Err = Nil
HasSubnets == Annos.Subnets # None
HasSubnet == Annos.Subnet # None
\* The list the multi-subnet annotation decodes to.
DecodedList == IF HasSubnets /\ Val(Annos.Subnets).JSON = "value" THEN Val(Annos.Subnets).Items ELSE <<>>
SameFirst(a, b) == Len(a) # 0 /\ Len(b) # 0 /\ a[1] = b[1]
SharesKey(x, y) == x.Interface = y.Interface \/ SameFirst(x.IPv4, y.IPv4) \/ SameFirst(x.IPv6, y.IPv6)
SharesValue(x, y) ==
    \/ x.Interface = y.Interface
    \/ Range(x.IPv4) \cap Range(y.IPv4) # {}
    \/ Range(x.IPv6) \cap Range(y.IPv6) # {}
Clash(items, R(_, _)) == \E i, j \in 1..Len(items) : i # j /\ R(items[i], items[j])

\* C12: a multi-subnet annotation whose decoded list has two entries
\* with the same first IPv4 value, the same first IPv6 value or the same
\* interface name is rejected with an error and no config, and no returned
\* config has two MultipleSubnets entries sharing an IPv4 value, an IPv6
\* value or an interface name.
C12_DuplicatesRejected ==
    Resolving =>
        /\ Clash(DecodedList, SharesKey) => (Returned.Err # Nil /\ Returned.Config = None)
        /\ Returned.Config # None => ~Clash(Val(Returned.Config).MultipleSubnets, SharesValue)

\* Two entries that differ in their subnets and share the interface name
\* are refused for the interface name.
C12_Witness ==
    /\ Resolving
    /\ Len(DecodedList) = 2
    /\ ~SameFirst(DecodedList[1].IPv4, DecodedList[2].IPv4)
    /\ ~SameFirst(DecodedList[1].IPv6, DecodedList[2].IPv6)
    /\ DecodedList[1].Interface = DecodedList[2].Interface
    /\ Returned.Err = "same Interface name for multiple interfaces"
    /\ Returned.Config = None

\* C13: a returned config has exactly one of SingleSubnet and
\* MultipleSubnets populated; with both subnet annotations present the
\* multi-subnet one is used and SingleSubnet stays unset; IsDefaultIPPoolMode
\* never reaches its last return on a resolver output.
C13_ExactlyOnePopulated ==
    Resolving =>
        /\ Returned.Config # None =>
              ((Val(Returned.Config).SingleSubnet # None)
                   # (Len(Val(Returned.Config).MultipleSubnets) # 0))
        /\ (Returned.Config # None /\ HasSubnets /\ HasSubnet) =>
              /\ Val(Returned.Config).SingleSubnet = None
              /\ Len(Val(Returned.Config).MultipleSubnets) # 0
        /\ IsDefaultIPPoolModeReturn(Returned.Config) # "fallthrough"

\* Both annotations are present and the call succeeds on the list.
C13_Witness ==
    /\ Succeeded /\ HasSubnets /\ HasSubnet
    /\ Val(Annos.Subnet).JSON = "value"
    /\ Returned.Config # None
    /\ Len(Val(Returned.Config).MultipleSubnets) = 2
    /\ IsDefaultIPPoolModeReturn(Returned.Config) = "multiple"

\* C14: with a subnet annotation present, a pool-size annotation that
\* parses to a negative count gives a validation error and a nil config;
\* a config is never returned with an error, and a returned config carries
\* no negative count taken from the annotation.
NegativeCount ==
    /\ Annos.IPNumber # None
    /\ GetPoolIPNumber(Val(Annos.IPNumber)).Err = Nil
    /\ GetPoolIPNumber(Val(Annos.IPNumber)).IPNum < 0
C14_NegativeCountRejected ==
    Resolving =>
        /\ ((HasSubnets \/ HasSubnet) /\ NegativeCount) =>
              (Returned.Err # Nil /\ Returned.Config = None)
        /\ Returned.Err # Nil => Returned.Config = None
        /\ (Returned.Config # None /\ Annos.IPNumber # None) =>
              /\ Val(Returned.Config).AssignIPNum >= 0
              /\ Val(Returned.Config).FlexibleIPNum # None =>
                    Val(Val(Returned.Config).FlexibleIPNum) >= 0

\* A well-formed subnet annotation beside a negative count, with nothing
\* else wrong: the call fails on the count.
C14_Witness ==
    /\ Resolving
    /\ Annos.Subnets = Some(JSONItems(GoodItems))
    /\ NegativeCount
    /\ Annos.Reclaim = None
    /\ Returned.Err = "ippool-ip-number must equal or greater than 0"
    /\ Returned.Config = None

\* C15: a call leaves the pod's annotation map as it was given, a second
\* call on the map the first call left behind returns what the first
\* returned, and a returned config lists the MultipleSubnets entries in the
\* order of the annotation.
SameEntry(kept, given) ==
    /\ kept.Interface = given.Interface
    /\ kept.IPv4 = SubSeq(given.IPv4, 1, Len(kept.IPv4))
    /\ kept.IPv6 = SubSeq(given.IPv6, 1, Len(kept.IPv6))
InAnnotationOrder(config) ==
    /\ Len(config.MultipleSubnets) = Len(DecodedList)
    /\ \A i \in 1..Len(DecodedList) : SameEntry(config.MultipleSubnets[i], DecodedList[i])
C19_DefaultModeIffNoSubnetAnnotation ==
    Resolving =>
        /\ Returned.Config = None => an[1].Mode
        /\ (Returned.Config # None
               /\ (Val(Returned.Config).SingleSubnet # None
                      \/ Len(Val(Returned.Config).MultipleSubnets) # 0)) => ~an[1].Mode
        /\ Returned.Err = Nil => (an[1].Mode <=> (~HasSubnets /\ ~HasSubnet))
        /\ (~HasSubnets /\ ~HasSubnet) => (Returned.Config = None /\ Returned.Err = Nil)

\* Neither subnet annotation, and a pool size and a reclaim flag that do
\* not parse: nil, nil, and the default mode.
C19_Witness ==
    /\ Resolving /\ ~HasSubnets /\ ~HasSubnet
    /\ Annos.IPNumber = Some(<<"a">>) /\ Annos.Reclaim = Some("maybe")
    /\ Returned = AnnoResult(None, Nil)
    /\ an[1].Mode

(***************************************************************************)
(* Free IPs of a subnet  (src/unnamed/part_001, 205-222)                   *)
(* An address is a number of 1..MaxIP and a range string is a pair         *)
(* <<first, last>>, malformed when first > last.  All addresses belong to  *)
(* the subnet's one IP version.  The helpers of package ip are taken from  *)
(* the specification.                                                      *)
(***************************************************************************)
IPs == 1..MaxIP
IPRanges == IPs \X IPs
ValidRange(r) == r[1] <= r[2]

\* The addresses of a list, in ascending order and without duplicates.
SortedIPs(S) == SelectSeq([i \in 1..MaxIP |-> i], LAMBDA ip : ip \in S)

\* ip.ParseIPRanges: the addresses of every range, or an error.
ParseIPRanges(ranges) ==
    IF \E i \in 1..Len(ranges) : ~ValidRange(ranges[i])
    THEN [IPs |-> <<>>, Err |-> "invalid IP range"]
    ELSE [IPs |-> SortedIPs(UNION {ranges[i][1]..ranges[i][2] : i \in 1..Len(ranges)}),
          Err |-> Nil]

\* ip.IPsDiffSet: the addresses of a that are not in b.
IPsDiffSet(a, b) == SortedIPs(Range(a) \ Range(b))

\* ip.AssembleTotalIPs: the declared addresses less the excluded ones.
AssembleTotalIPs(ipRanges, excludedIPRanges) ==
    LET ips == ParseIPRanges(ipRanges)
        excluded == ParseIPRanges(excludedIPRanges)
    IN  IF ips.Err # Nil THEN ips
        ELSE IF excluded.Err # Nil THEN excluded
        ELSE [IPs |-> IPsDiffSet(ips.IPs, excluded.IPs), Err |-> Nil]

\* The IPs of the pools of subnet.Status.ControlledIPPools, appended in the
\* order the map is iterated in.
RECURSIVE GatherUsed(_, _)
GatherUsed(pools, order) ==
    IF order = <<>> THEN <<>> ELSE pools[Head(order)] \o GatherUsed(pools, Tail(order))

\* GenSubnetFreeIPs counting only the first pool it meets as used.
GenSubnetFreeIPs_FirstPoolOnly(subnet, order) ==
    LET first == IF order = <<>> THEN <<>> ELSE <<Head(order)>>
        usedIPs == ParseIPRanges(GatherUsed(subnet.Status.ControlledIPPools, first))
        totalIPs == AssembleTotalIPs(subnet.Spec.IPs, subnet.Spec.ExcludeIPs)
    IN  IF usedIPs.Err # Nil THEN usedIPs
        ELSE IF totalIPs.Err # Nil THEN totalIPs
        ELSE [IPs |-> IPsDiffSet(totalIPs.IPs, usedIPs.IPs), Err |-> Nil]

\* GenSubnetFreeIPs; order is the order the range loop visits the map in.
GenSubnetFreeIPs(subnet, order) ==
    LET used == GatherUsed(subnet.Status.ControlledIPPools, order)
        usedIPs == ParseIPRanges(used)
        totalIPs == AssembleTotalIPs(subnet.Spec.IPs, subnet.Spec.ExcludeIPs)
    IN  IF usedIPs.Err # Nil THEN [IPs |-> <<>>, Err |-> usedIPs.Err]
        ELSE IF totalIPs.Err # Nil THEN [IPs |-> <<>>, Err |-> totalIPs.Err]
        ELSE [IPs |-> IPsDiffSet(totalIPs.IPs, usedIPs.IPs), Err |-> Nil]

PoolNames == {"pool-a", "pool-b"}
SingleIPRanges == {<<ip, ip>> : ip \in IPs}
\* The status maps of the model: pool-a with any one range or none, pool-b
\* with one address or none.
ControlledIPPools ==
    {[n \in {} |-> <<>>]}
    \cup {[n \in {"pool-a"} |-> a] : a \in SeqUpTo(IPRanges, 1)}
    \cup {[n \in {"pool-b"} |-> b] : b \in SeqUpTo(SingleIPRanges, 1)}
    \cup {[n \in PoolNames |-> IF n = "pool-a" THEN <<a>> ELSE <<b>>] :
             a \in IPRanges, b \in SingleIPRanges}
FreeSubnets ==
    [Spec : [IPs : SeqUpTo(IPRanges, 2), ExcludeIPs : SeqUpTo(SingleIPRanges, 1)],
     Status : [ControlledIPPools : ControlledIPPools]]
\* The orders a range loop may visit a map's keys in.
Orders(pools) ==
    {o \in SeqUpTo(DOMAIN pools, Cardinality(PoolNames)) :
        Len(o) = Cardinality(DOMAIN pools) /\ Range(o) = DOMAIN pools}

CallGenSubnetFreeIPs ==
    /\ fr = FrIdle
    /\ \E subnet \in FreeSubnets :
          \E order \in Orders(subnet.Status.ControlledIPPools) :
             fr' = <<[Subnet |-> subnet, Order |-> order,
                      Out |-> GenSubnetFreeIPs(subnet, order)]>>
    /\ UNCHANGED <<wh, store, pod, rv, nm, pn, churn, jb, an>>

FreeInit ==
    /\ wh = WhIdle /\ store = EmptyStore /\ pod = NoPod /\ rv = RvIdle
    /\ nm = NmIdle /\ pn = PnIdle /\ churn = 0
    /\ jb = JbIdle /\ an = AnIdle /\ fr = FrIdle

FreeNext == CallGenSubnetFreeIPs

SpecFree == FreeInit /\ [][FreeNext]_vars

Covered(ranges) == UNION {ranges[i][1]..ranges[i][2] : i \in 1..Len(ranges)}
Held(subnet) ==
    UNION {Covered(subnet.Status.ControlledIPPools[n]) : n \in DOMAIN subnet.Status.ControlledIPPools}
WellFormed(subnet) ==
    /\ \A i \in 1..Len(subnet.Spec.IPs) : ValidRange(subnet.Spec.IPs[i])
    /\ \A i \in 1..Len(subnet.Spec.ExcludeIPs) : ValidRange(subnet.Spec.ExcludeIPs[i])
    /\ \A n \in DOMAIN subnet.Status.ControlledIPPools :
          \A i \in 1..Len(subnet.Status.ControlledIPPools[n]) :
             ValidRange(subnet.Status.ControlledIPPools[n][i])

\* C16: GenSubnetFreeIPs returns, without duplicates, exactly the
\* addresses of Spec.IPs that are not in Spec.ExcludeIPs and are held by no
\* pool of Status.ControlledIPPools.
C16_FreeIsTotalLessUsed ==
    (fr # FrIdle /\ WellFormed(fr[1].Subnet)) =>
        /\ fr[1].Out.Err = Nil
        /\ Range(fr[1].Out.IPs) =
              (Covered(fr[1].Subnet.Spec.IPs) \ Covered(fr[1].Subnet.Spec.ExcludeIPs))
                  \ Held(fr[1].Subnet)
        /\ Cardinality(Range(fr[1].Out.IPs)) = Len(fr[1].Out.IPs)

\* Two pools hold different addresses of the subnet, nothing is excluded
\* and one address is left free.
C16_Witness ==
    /\ fr # FrIdle
    /\ WellFormed(fr[1].Subnet)
    /\ DOMAIN fr[1].Subnet.Status.ControlledIPPools = PoolNames
    /\ Held(fr[1].Subnet) \subseteq Covered(fr[1].Subnet.Spec.IPs)
    /\ Cardinality(Held(fr[1].Subnet)) = 2
    /\ Len(fr[1].Subnet.Spec.ExcludeIPs) = 0
    /\ Len(fr[1].Out.IPs) = 1
    /\ Cardinality(Covered(fr[1].Subnet.Spec.IPs)) >= 3

(***************************************************************************)
(* More properties of the webhook.                                         *)
(***************************************************************************)
\* C17: ValidateCreate, and ValidateUpdate on an object without a
\* deletion timestamp, return nil exactly when the structural validation
\* returned no field error, and otherwise one Invalid denial that carries
\* every field error returned.
C17_InvalidCarriesEveryError ==
    (wh.Op = "ValidateCreate" \/ (wh.Op = "ValidateUpdate" /\ wh.New.DeletionTimestamp = Nil)) =>
        /\ (wh.Result = Allowed) <=> (wh.Errs = <<>>)
        /\ wh.Errs # <<>> => wh.Result = Invalid(wh.New.Name, wh.Errs)

\* A creation is denied with its two different field errors.
C17_Witness ==
    /\ wh.Op = "ValidateCreate"
    /\ Len(wh.Errs) = 2
    /\ wh.Errs[1] # wh.Errs[2]
    /\ wh.Result.Status = "Invalid"
    /\ wh.Result.Errs = wh.Errs

\* C18: Default returns nil for every Subnet, also when the mutation
\* step failed, and ValidateDelete returns nil for every object, also for a
\* Subnet whose status still records child pools.
C18_DefaultAndDeleteNeverDeny ==
    wh.Op \in {"Default", "ValidateDelete"} => wh.Result = Allowed

\* The mutation step failed and Default returned nil.
C18_Witness ==
    /\ wh.Op = "Default"
    /\ wh.MutateErr # Nil
    /\ wh.Result = Allowed

====
